---- MODULE Spec2Model ----
(***************************************************************************)
(* The user CRUD service of src/python_api/main.py: five FastAPI handlers  *)
(* over one table "users", each running in its own AsyncSession.  Every    *)
(* `await` of a handler that talks to the database is one step: the code   *)
(* before it and the statement it waits for.  The handlers of concurrent   *)
(* requests therefore interleave exactly where the event loop lets them.   *)
(* Only POST /users has a step of its own for the arrival of the request,  *)
(* since its first statement is already its write.                         *)
(*                                                                         *)
(* The database (PostgreSQL, READ COMMITTED) and the ORM (SQLAlchemy) are  *)
(* modelled by what the statements the handlers issue do:                  *)
(*   - commit() flushes the session's pending INSERT/UPDATE/DELETE and     *)
(*     commits it; a statement that raises leaves the table untouched;     *)
(*   - the flush of a modified object writes only the attributes whose     *)
(*     value differs from the value that was loaded, and emits no UPDATE   *)
(*     when none differs; an UPDATE that matches no row raises             *)
(*     StaleDataError, a DELETE that matches no row only warns;            *)
(*   - refresh() re-reads the row by primary key and raises                *)
(*     InvalidRequestError when it is gone;                                *)
(*   - a SELECT without ORDER BY returns the rows in the table's scan      *)
(*     order: an INSERT appends, the new version of an updated row is      *)
(*     either written where the old one was or after the last row;        *)
(*   - the id sequence hands out each value once, also to an INSERT that   *)
(*     then fails.                                                         *)
(***************************************************************************)
EXTENDS Integers, Sequences, FiniteSets, TLC

\* ---------------------------------------------------------------- bounds
MaxId == 2         \* values the id sequence hands out
MaxPage == 2       \* skip and limit range over -1 .. MaxPage

\* The requests in flight at the same time.
Reqs == {1, 2}
IdRange == 1..MaxId
PageArgs == (-1)..MaxPage

Emails == {"a@x.com", "b@x.com"}
Handles == {"ann1", "bob1"}

\* ------------------------------------------------------------ data model
Columns == {"name", "email", "user", "password"}

\* The request bodies the model submits: every email with every handle, under
\* two name/password pairs.
Logins == {<<"Ann", "p">>, <<"Bob", "q">>}

UserCreate ==
    {[name |-> l[1], email |-> e, user |-> u, password |-> l[2]] :
        l \in Logins, e \in Emails, u \in Handles}

NoBody == [name |-> "", email |-> "", user |-> "", password |-> ""]

NoRow == [id |-> 0, name |-> "", email |-> "", user |-> "", password |-> ""]

UserDB(id, b) ==
    [id |-> id, name |-> b.name, email |-> b.email, user |-> b.user,
     password |-> b.password]

\* An object whose attributes will be read again by refresh(): only its
\* primary key matters.
Key(id) == [NoRow EXCEPT !.id = id]

FieldsOf(row) ==
    [name |-> row.name, email |-> row.email, user |-> row.user,
     password |-> row.password]

\* The table, its id sequence and the requests being handled; deleted and
\* returned record what the responses so far have said.  cli and checkedout
\* are the sessions of the requests and the connection pool of the engine.
VARIABLES store, nextId, req, deleted, returned, cli, checkedout

poolvars == <<cli, checkedout>>

dbvars == <<store, nextId, req, deleted, returned>>

vars == <<store, nextId, req, deleted, returned, cli, checkedout>>

\* ------------------------------------------------------- the users table
Ids(s) == {s[i].id : i \in DOMAIN s}

IndexOf(s, id) == CHOOSE i \in DOMAIN s : s[i].id = id

\* select(UserDB).filter(UserDB.id == user_id) ... .first()
SelectFirst(s, id) == IF id \in Ids(s) THEN s[IndexOf(s, id)] ELSE NoRow

\* (mutant) Only the email column is declared unique.
UniqueViolationEmailOnly(s, row) ==
    \E i \in DOMAIN s : s[i].id # row.id /\ s[i].email = row.email

\* (mutant) Only the user column is declared unique.
UniqueViolationHandleOnly(s, row) ==
    \E i \in DOMAIN s : s[i].id # row.id /\ s[i].user = row.user

\* The unique=True indexes on email and on user: a row may not share either
\* with another row.
UniqueViolation(s, row) ==
    \E i \in DOMAIN s :
        /\ s[i].id # row.id
        /\ (s[i].email = row.email \/ s[i].user = row.user)

RemoveAt(s, i) == SubSeq(s, 1, i - 1) \o SubSeq(s, i + 1, Len(s))

\* The scan orders an UPDATE of the row at position i can leave.
Rewrites(s, i, row) == {[s EXCEPT ![i] = row], Append(RemoveAt(s, i), row)}

\* The attributes the unit of work finds modified: those set to a value other
\* than the loaded one.
ChangedColumns(obj, b) == {c \in Columns : b[c] # obj[c]}

\* UPDATE users SET <changed columns> WHERE id = ...
Overwrite(row, b, cols) ==
    [c \in DOMAIN row |-> IF c \in cols THEN b[c] ELSE row[c]]

\* (mutant) The id is computed from the number of rows, so that the id of a
\* deleted row is handed out again.
NewIdFromCount(n, s) == Len(s) + 1

\* The id an INSERT into s gets: the value n the column's sequence is at.
NewId(n, s) == n

\* (mutant) The query is built without .offset(skip).
OffsetDropped(s, k) == s

\* .offset(skip) and .limit(limit) of read_users.
Offset(s, k) == IF k >= Len(s) THEN <<>> ELSE SubSeq(s, k + 1, Len(s))

Limit(s, k) == IF k >= Len(s) THEN s ELSE SubSeq(s, 1, k)

\* -------------------------------------------------------------- requests
Idle ==
    [op |-> "none", pc |-> "idle", id |-> 0, body |-> NoBody, skip |-> 0,
     limit |-> 0, obj |-> NoRow, err |-> "", status |-> 0, detail |-> "",
     rows |-> <<>>]

Begin(op, pc) == [Idle EXCEPT !.op = op, !.pc = pc]

\* The handler is over: what is left of the request is its response.
Reply(q, status, detail, rows) ==
    [Idle EXCEPT !.op = q.op, !.pc = "done", !.id = q.id, !.skip = q.skip,
                 !.limit = q.limit, !.err = q.err, !.status = status,
                 !.detail = detail, !.rows = rows]

\* An exception no handler catches: the framework answers 500.
Raise(q, err) ==
    [Reply(q, 500, "Internal Server Error", <<>>) EXCEPT !.err = err]

NotFound(q) == Reply(q, 404, "User not found", <<>>)

\* The INSERTs on their way to the database: each will take a sequence value.
PendingInserts ==
    Cardinality({r \in Reqs : req[r].op = "create" /\ req[r].pc = "commit"})

\* ------------------------------------------------- sessions and the pool
\* create_async_engine(..., pool_size=20, max_overflow=10)
pool_size == 20

max_overflow == 10

\* (mutant) The engine is created with max_overflow=-1: no limit.
PoolHasRoomUnbounded(n) == TRUE

\* The pool hands out a connection while fewer than pool_size + max_overflow
\* are checked out.
PoolHasRoom(n) == n < pool_size + max_overflow

\* (mutant) get_db yields one module-level session to every request.
SharedSession(used) == 1

\* AsyncSessionLocal(): a new session object, none of those in use.
AsyncSessionLocal(used) == CHOOSE k \in 1..(Cardinality(used) + 1) : k \notin used

NoSession == [kind |-> "none", pc |-> "idle", session |-> 0, conn |-> FALSE, path |-> ""]

InitPool ==
    /\ cli = [c \in Reqs |-> NoSession]
    /\ checkedout = 0

Init ==
    /\ store = <<>>
    /\ nextId = 1
    /\ req = [r \in Reqs |-> Idle]
    /\ deleted = {}
    /\ returned = [i \in IdRange |-> NoBody]
    /\ InitPool

\* ---- POST /users -----------------------------------------------------
\* new_user = UserDB(**user.dict()); db.add(new_user)
CreateStart(r, b) ==
    /\ UNCHANGED poolvars
    /\ req[r].pc = "idle"
    /\ nextId + PendingInserts <= MaxId
    /\ req' = [req EXCEPT ![r] = [Begin("create", "commit") EXCEPT !.body = b]]
    /\ UNCHANGED <<store, nextId, deleted, returned>>

\* await db.commit(): INSERT ... RETURNING id, then COMMIT.
CreateCommit(r) ==
    /\ UNCHANGED poolvars
    /\ req[r].op = "create" /\ req[r].pc = "commit"
    /\ nextId' = nextId + 1
    /\ LET row == UserDB(NewId(nextId, store), req[r].body) IN
       IF UniqueViolation(store, row)
       THEN /\ req' = [req EXCEPT ![r].pc = "rollback", ![r].err = "IntegrityError"]
            /\ UNCHANGED <<store, deleted, returned>>
       ELSE /\ store' = Append(store, row)
            /\ req' = [req EXCEPT ![r].pc = "refresh", ![r].obj = Key(row.id)]
            /\ UNCHANGED <<deleted, returned>>

\* await db.refresh(new_user), still inside the try.
CreateRefresh(r) ==
    /\ UNCHANGED poolvars
    /\ req[r].op = "create" /\ req[r].pc = "refresh"
    /\ LET row == SelectFirst(store, req[r].obj.id) IN
       IF row = NoRow
       THEN /\ req' = [req EXCEPT ![r].pc = "rollback", ![r].err = "InvalidRequestError"]
            /\ UNCHANGED returned
       ELSE /\ req' = [req EXCEPT ![r] = Reply(@, 201, "", <<row>>)]
            /\ returned' = [returned EXCEPT ![row.id] = FieldsOf(row)]
    /\ UNCHANGED <<store, nextId, deleted>>

\* (mutant) The except clause rolls back and forgets to raise: the handler
\* goes on to return new_user.
CreateRollbackNoRaise(r) ==
    /\ UNCHANGED poolvars
    /\ req[r].op = "create" /\ req[r].pc = "rollback"
    /\ req' = [req EXCEPT ![r] = Reply(@, 201, "", <<UserDB(0, req[r].body)>>)]
    /\ UNCHANGED <<store, nextId, deleted, returned>>

\* except Exception: await db.rollback(); raise HTTPException(400, ...)
CreateRollback(r) ==
    /\ UNCHANGED poolvars
    /\ req[r].op = "create" /\ req[r].pc = "rollback"
    /\ req' = [req EXCEPT ![r] = Reply(@, 400, "User or Email already exists", <<>>)]
    /\ UNCHANGED <<store, nextId, deleted, returned>>

\* ---- GET /users/{user_id} --------------------------------------------
\* The handler has one await: the SELECT.
ReadUser(r, id) ==
    /\ UNCHANGED poolvars
    /\ req[r].pc = "idle"
    /\ LET q == [Begin("get", "select") EXCEPT !.id = id]
           row == SelectFirst(store, id)
       IN
       req' = [req EXCEPT ![r] = IF row = NoRow THEN NotFound(q)
                                 ELSE Reply(q, 200, "", <<row>>)]
    /\ UNCHANGED <<store, nextId, deleted, returned>>

\* ---- GET /users ---------------------------------------------------------
\* SELECT ... LIMIT :limit OFFSET :skip, the handler's one await; the database
\* rejects a negative LIMIT or OFFSET, and the handler catches nothing.
ReadUsers(r, skip, limit) ==
    /\ UNCHANGED poolvars
    /\ req[r].pc = "idle"
    /\ LET q == [Begin("list", "select") EXCEPT !.skip = skip, !.limit = limit] IN
       req' = [req EXCEPT ![r] =
                  IF skip < 0 \/ limit < 0 THEN Raise(q, "DBAPIError")
                  ELSE Reply(q, 200, "", Limit(Offset(store, skip), limit))]
    /\ UNCHANGED <<store, nextId, deleted, returned>>

\* ---- PUT /users/{user_id} ---------------------------------------------
\* The select, the None check and the four attribute assignments.
UpdateSelect(r, id, b) ==
    /\ UNCHANGED poolvars
    /\ req[r].pc = "idle"
    /\ LET q == [Begin("update", "select") EXCEPT !.id = id, !.body = b]
           row == SelectFirst(store, id)
       IN
       req' = [req EXCEPT ![r] = IF row = NoRow THEN NotFound(q)
                                 ELSE [q EXCEPT !.pc = "commit", !.obj = row]]
    /\ UNCHANGED <<store, nextId, deleted, returned>>

\* (mutant) The handler commits after the name and the password and again
\* after the email and the handle: a duplicate refuses the second commit only.
UpdateCommitTwice(r) ==
    /\ UNCHANGED poolvars
    /\ req[r].op = "update" /\ req[r].pc = "commit"
    /\ LET id == req[r].obj.id
           cols == ChangedColumns(req[r].obj, req[r].body)
       IN
       IF cols = {} \/ id \notin Ids(store)
       THEN /\ req' = [req EXCEPT ![r].pc = "refresh", ![r].obj = Key(id)]
            /\ UNCHANGED <<store, returned>>
       ELSE LET i == IndexOf(store, id)
                half == Overwrite(store[i], req[r].body, cols \ {"email", "user"})
                row == Overwrite(store[i], req[r].body, cols)
            IN
            IF UniqueViolation(store, row)
            THEN /\ store' = [store EXCEPT ![i] = half]
                 /\ req' = [req EXCEPT ![r] = Raise(@, "IntegrityError")]
                 /\ UNCHANGED returned
            ELSE /\ store' \in Rewrites(store, i, row)
                 /\ req' = [req EXCEPT ![r].pc = "refresh", ![r].obj = Key(id)]
                 /\ returned' = [returned EXCEPT ![id] = NoBody]
    /\ UNCHANGED <<nextId, deleted>>

\* await db.commit(): UPDATE users SET <modified attributes> WHERE id = ...,
\* then COMMIT.  Nothing is caught: an error of the flush ends the request.
UpdateCommit(r) ==
    /\ UNCHANGED poolvars
    /\ req[r].op = "update" /\ req[r].pc = "commit"
    /\ LET id == req[r].obj.id
           cols == ChangedColumns(req[r].obj, req[r].body)
       IN
       IF cols = {}
       THEN /\ req' = [req EXCEPT ![r].pc = "refresh", ![r].obj = Key(id)]
            /\ UNCHANGED <<store, returned>>
       ELSE IF id \notin Ids(store)
       THEN /\ req' = [req EXCEPT ![r] = Raise(@, "StaleDataError")]
            /\ UNCHANGED <<store, returned>>
       ELSE LET i == IndexOf(store, id)
                row == Overwrite(store[i], req[r].body, cols)
            IN
            IF UniqueViolation(store, row)
            THEN /\ req' = [req EXCEPT ![r] = Raise(@, "IntegrityError")]
                 /\ UNCHANGED <<store, returned>>
            ELSE /\ store' \in Rewrites(store, i, row)
                 /\ req' = [req EXCEPT ![r].pc = "refresh", ![r].obj = Key(id)]
                 /\ returned' = [returned EXCEPT ![id] = NoBody]
    /\ UNCHANGED <<nextId, deleted>>

\* await db.refresh(db_user); return db_user
UpdateRefresh(r) ==
    /\ UNCHANGED poolvars
    /\ req[r].op = "update" /\ req[r].pc = "refresh"
    /\ LET row == SelectFirst(store, req[r].obj.id) IN
       IF row = NoRow
       THEN /\ req' = [req EXCEPT ![r] = Raise(@, "InvalidRequestError")]
            /\ UNCHANGED returned
       ELSE /\ req' = [req EXCEPT ![r] = Reply(@, 200, "", <<row>>)]
            /\ returned' = [returned EXCEPT ![row.id] = FieldsOf(row)]
    /\ UNCHANGED <<store, nextId, deleted>>

\* ---- DELETE /users/{user_id} -----------------------------------------
\* The select and the None check.
DeleteSelect(r, id) ==
    /\ UNCHANGED poolvars
    /\ req[r].pc = "idle"
    /\ LET q == [Begin("delete", "select") EXCEPT !.id = id]
           row == SelectFirst(store, id)
       IN
       req' = [req EXCEPT ![r] = IF row = NoRow THEN NotFound(q)
                                 ELSE [q EXCEPT !.pc = "commit", !.obj = Key(row.id)]]
    /\ UNCHANGED <<store, nextId, deleted, returned>>

\* await db.delete(db_user); await db.commit(): DELETE ... WHERE id = ..., COMMIT.
\* A DELETE that matches no row is a warning of the ORM, not an error.
DeleteCommit(r) ==
    /\ UNCHANGED poolvars
    /\ req[r].op = "delete" /\ req[r].pc = "commit"
    /\ LET id == req[r].obj.id IN
       /\ store' = IF id \in Ids(store) THEN RemoveAt(store, IndexOf(store, id))
                   ELSE store
       /\ deleted' = deleted \cup {id}
       /\ returned' = [returned EXCEPT ![id] = NoBody]
    /\ req' = [req EXCEPT ![r] = Reply(@, 200, "User deleted successfully", <<>>)]
    /\ UNCHANGED nextId

\* ---- the response leaves, get_db closes the session ------------------
Respond(r) ==
    /\ UNCHANGED poolvars
    /\ req[r].pc = "done"
    /\ req' = [req EXCEPT ![r] = Idle]
    /\ UNCHANGED <<store, nextId, deleted, returned>>

Next ==
    \E r \in Reqs :
        \/ \E b \in UserCreate : CreateStart(r, b)
        \/ CreateCommit(r)
        \/ CreateRefresh(r)
        \/ CreateRollback(r)
        \/ \E id \in IdRange : ReadUser(r, id)
        \/ \E skip \in PageArgs, limit \in PageArgs : ReadUsers(r, skip, limit)
        \/ \E id \in IdRange, b \in UserCreate : UpdateSelect(r, id, b)
        \/ UpdateCommit(r)
        \/ UpdateRefresh(r)
        \/ \E id \in IdRange : DeleteSelect(r, id)
        \/ DeleteCommit(r)
        \/ Respond(r)

Spec == Init /\ [][Next]_vars

\* ------------------------------------------------------------------ C1
\* C1: in every reachable state no two stored users have the same email and
\* no two stored users have the same user handle.
UniqueEmailAndHandle ==
    \A i, j \in DOMAIN store :
        i # j => store[i].email # store[j].email /\ store[i].user # store[j].user

\* Two users are stored and a write has been refused for a duplicate.
UniqueEmailAndHandleWitness ==
    /\ Len(store) = 2
    /\ \E r \in Reqs : req[r].err = "IntegrityError"

\* ------------------------------------------------------------------ C2
Collides(b, row) == b.email = row.email \/ b.user = row.user

CollidesWithStored(b, s) == \E i \in DOMAIN s : Collides(b, s[i])

Stepped(r) == req'[r] # req[r]

\* C2: a Create whose email or user handle is that of a stored user when its
\* INSERT runs is refused, and ends with status 400, the detail "User or Email
\* already exists" and no user in the response.
CreateConflictIs400 ==
    [][\A r \in Reqs :
          /\ (/\ req[r].op = "create" /\ req[r].pc = "commit" /\ Stepped(r)
              /\ CollidesWithStored(req[r].body, store))
             => (/\ req'[r].pc = "rollback"
                 /\ req'[r].err = "IntegrityError"
                 /\ store' = store)
          /\ (req[r].op = "create" /\ req[r].pc = "rollback" /\ Stepped(r))
             => (/\ req'[r].pc = "done"
                 /\ req'[r].status = 400
                 /\ req'[r].detail = "User or Email already exists"
                 /\ req'[r].rows = <<>>)]_vars

\* A Create refused for a duplicate has been answered.
CreateConflictIs400Witness ==
    \E r \in Reqs :
        /\ req[r].op = "create" /\ req[r].pc = "done"
        /\ req[r].err = "IntegrityError" /\ req[r].status = 400

\* ------------------------------------------------------------------ C3
Others(r) == Reqs \ {r}

\* C3: a Create or Update that fails on email or handle uniqueness writes
\* nothing: the step that fails, the steps of the request before it and after
\* it leave the stored users as they are, and change no other request.
FailedWriteWritesNothing ==
    [][\A r \in Reqs :
          (/\ Stepped(r)
           /\ req[r].op \in {"none", "create", "update"}
           /\ req'[r].op \in {"create", "update"}
           /\ (req'[r].err = "IntegrityError" \/ req'[r].pc = "commit"))
          => (/\ store' = store
              /\ \A q \in Others(r) : req'[q] = req[q])]_vars

\* An Update has been refused for a duplicate and answered.
FailedWriteWritesNothingWitness ==
    \E r \in Reqs : /\ req[r].op = "update" /\ req[r].pc = "done"
                     /\ req[r].err = "IntegrityError" /\ req[r].status = 500

\* ------------------------------------------------------------------ C6
\* C6: once a Delete(id) has answered 200, a Get, Update or Delete of that id
\* that comes later answers 404 "User not found"; and a Get, Update or Delete
\* whose id is not stored when it selects answers 404 and leaves the stored
\* users as they are.
DeletedStaysNotFound ==
    [][\A r \in Reqs :
          (/\ req[r].pc = "idle"
           /\ req'[r].op \in {"get", "update", "delete"}
           /\ (req'[r].id \in deleted \/ req'[r].id \notin Ids(store)))
          => (/\ req'[r].pc = "done"
              /\ req'[r].status = 404
              /\ req'[r].detail = "User not found"
              /\ store' = store)]_vars

\* A Get and a Delete of an id deleted before have been answered 404 while
\* another user is stored.
DeletedStaysNotFoundWitness ==
    /\ store # <<>>
    /\ \E r \in Reqs : /\ req[r].op = "get" /\ req[r].status = 404
                       /\ req[r].id \in deleted
    /\ \E r \in Reqs : /\ req[r].op = "delete" /\ req[r].status = 404
                       /\ req[r].id \in deleted

\* ------------------------------------------------------------------ C8
Min(a, b) == IF a <= b THEN a ELSE b

Max(a, b) == IF a >= b THEN a ELSE b

PageCount(n, skip, limit) == Min(limit, Max(0, n - skip))

\* The rows of s in the order they were inserted: by id.
RECURSIVE ByInsertion(_)
ByInsertion(s) ==
    IF s = <<>> THEN <<>>
    ELSE LET i == CHOOSE k \in DOMAIN s : \A j \in DOMAIN s : s[k].id <= s[j].id
         IN <<s[i]>> \o ByInsertion(RemoveAt(s, i))

IsPageOf(q, s) ==
    /\ q.status = 200
    /\ Len(q.rows) = PageCount(Len(s), q.skip, q.limit)
    /\ \A i \in DOMAIN q.rows : q.rows[i] = s[q.skip + i]

Listed(r) == req[r].pc = "idle" /\ req'[r].op = "list"

ListFollowsInsertions ==
    [][\A r \in Reqs :
          (Listed(r) /\ req'[r].skip >= 0 /\ req'[r].limit >= 0)
          => IsPageOf(req'[r], ByInsertion(store))]_vars

\* ------------------------------------------------------------------ C5
\* The Get of an id whose last Create or Update response has not been followed
\* by an Update or a Delete of that id returns what that response returned.
GetReturnsLastResponse ==
    \A r \in Reqs :
        (/\ req[r].pc = "idle" /\ req'[r].op = "get"
         /\ returned[req'[r].id] # NoBody)
        => (/\ req'[r].status = 200
            /\ req'[r].rows = <<UserDB(req'[r].id, returned[req'[r].id])>>)

\* C5: a Create whose email and user handle no stored user has is answered 201
\* with a user that carries the id the storage assigned and the four submitted
\* values; a later Get of that id, with no Update or Delete of it in between,
\* returns the same id and values.
CreateReturnsSubmitted ==
    [][/\ \A r \in Reqs :
             /\ (/\ req[r].op = "create" /\ req[r].pc = "commit" /\ Stepped(r)
                 /\ ~CollidesWithStored(req[r].body, store))
                => (/\ req'[r].pc = "refresh"
                    /\ req'[r].obj.id = nextId
                    /\ SelectFirst(store', nextId) = UserDB(nextId, req[r].body))
             /\ (req[r].op = "create" /\ req[r].pc = "refresh" /\ Stepped(r))
                => (/\ req'[r].status = 201
                    /\ req'[r].rows = <<UserDB(req[r].obj.id, req[r].body)>>)
       /\ GetReturnsLastResponse]_vars

\* ------------------------------------------------------------------ C7
RowsBut(s, id) == {s[i] : i \in {k \in DOMAIN s : s[k].id # id}}

\* C7: an Update that succeeds replaces the four fields of the user with that
\* id by the submitted values, keeps the id and every other user as they are,
\* and is answered 200 with the new values; a later Get returns them.
UpdateReplacesAll ==
    [][/\ \A r \in Reqs :
             /\ (/\ req[r].op = "update" /\ req[r].pc = "commit"
                 /\ req'[r].pc = "refresh")
                => (/\ SelectFirst(store', req[r].id) = UserDB(req[r].id, req[r].body)
                    /\ RowsBut(store', req[r].id) = RowsBut(store, req[r].id)
                    /\ Len(store') = Len(store))
             /\ (/\ req[r].op = "update" /\ req[r].pc = "refresh"
                 /\ req'[r].status = 200)
                => req'[r].rows = <<UserDB(req[r].id, req[r].body)>>
       /\ \A r \in Reqs :
             (/\ req[r].pc = "idle" /\ req'[r].op = "get"
              /\ returned[req'[r].id] # NoBody)
             => req'[r].rows = <<UserDB(req'[r].id, returned[req'[r].id])>>]_vars

\* ------------------------------------------------------------------ C9
\* What an Update answers when the requests run one after the other: 200, 404
\* or, refused for a duplicate, 500.
SerialAnswer(q) == q.status \in {200, 404} \/ q.err = "IntegrityError"

\* Two Deletes of an id are never both answered 200: ids are not handed out
\* twice, so the second of any serial order finds no row.
NoTwoDeletesSucceed ==
    \A r1, r2 \in Reqs :
        (/\ r1 # r2
         /\ req[r1].op = "delete" /\ req[r2].op = "delete"
         /\ req[r1].id = req[r2].id)
        => ~(req[r1].status = 200 /\ req[r2].status = 200)

\* An Update is answered what some serial order answers.
UpdateAnswersSerially ==
    \A r \in Reqs : (req[r].pc = "done" /\ req[r].op = "update") => SerialAnswer(req[r])

\* C9: requests on one id take effect as if they ran one after the other: two
\* concurrent Deletes of an id never both report success, and an Update
\* concurrent with a Delete ends 200 or 404 and never otherwise.
RequestsAreAtomic == NoTwoDeletesSucceed /\ UpdateAnswersSerially

\* ------------------------------------------------------------------ C4
\* Two Creates that collide with each other and with no stored user, both on
\* their way to the database; the stored users are those the sequence, which
\* the two INSERTs must still fit, has left room for.
RaceStores == {<<>>} \cup {<<UserDB(1, b)>> : b \in UserCreate}

RaceInit ==
    /\ store \in RaceStores
    /\ nextId = Len(store) + 1
    /\ nextId + 1 <= MaxId
    /\ \E b1, b2 \in UserCreate :
          /\ Collides(b1, UserDB(0, b2))
          /\ ~CollidesWithStored(b1, store) /\ ~CollidesWithStored(b2, store)
          /\ req = [r \in Reqs |->
                      [Begin("create", "commit") EXCEPT !.body = IF r = 1 THEN b1 ELSE b2]]
    /\ deleted = {}
    /\ returned = [i \in IdRange |-> NoBody]
    /\ InitPool

RaceNext == \E r \in Reqs : CreateCommit(r) \/ CreateRefresh(r) \/ CreateRollback(r)

RaceSpec == RaceInit /\ [][RaceNext]_vars

\* The INSERTs the database has run, and the rows they have added.
Inserts == Cardinality({r \in Reqs : req[r].pc # "commit"})

RowsAdded == Len(store) - (nextId - 1 - Inserts)

\* C4: of two concurrent Creates that collide with each other, under every
\* interleaving one is answered 201 and the other 400 "User or Email already
\* exists", and one row is added.
OneOfTwoCreatesWins ==
    /\ RowsAdded <= 1
    /\ (\A r \in Reqs : req[r].pc = "done")
       => (/\ RowsAdded = 1
           /\ \E r1, r2 \in Reqs :
                 /\ r1 # r2
                 /\ req[r1].status = 201 /\ Len(req[r1].rows) = 1
                 /\ req[r2].status = 400
                 /\ req[r2].detail = "User or Email already exists")

\* Both Creates have been answered, the second INSERT refused.
OneOfTwoCreatesWinsWitness ==
    /\ \A r \in Reqs : req[r].pc = "done"
    /\ \E r \in Reqs : req[r].err = "IntegrityError"
    /\ RowsAdded = 1

\* ------------------------------------------------------------------ C10
\* The handlers as their sessions see them.  A session takes a connection
\* from the pool for the first statement of a transaction and gives it back at
\* commit, rollback or close; what the statements find in the table is left
\* open, so that every exit path of every handler is taken.  A statement that
\* needs a connection when the pool has none to give fails with the pool's
\* timeout.  checkedout counts the connections of all sessions, those of the
\* requests followed here and those of the other requests in flight.
Kinds == {"create", "list", "get", "update", "delete"}

InSessions == {cli[c].session : c \in {d \in Reqs : cli[d].pc # "idle"}}

Holding == Cardinality({c \in Reqs : cli[c].conn})

\* The handler of c leaves by path; get_db will close the session.
Leave(c, conn, path) == [cli[c] EXCEPT !.pc = "close", !.conn = conn, !.path = path]

\* The connection count after c, holding one or not, has run a statement that
\* leaves it holding one or not.
Checkedout(n, before, after) ==
    IF after /\ ~before THEN n + 1 ELSE IF before /\ ~after THEN n - 1 ELSE n

CanRun(c) == cli[c].conn \/ PoolHasRoom(checkedout)

\* async with AsyncSessionLocal() as session: yield session
GetDb(c, kind) ==
    /\ cli[c].pc = "idle"
    /\ cli' = [cli EXCEPT ![c] =
                  [kind |-> kind,
                   pc |-> IF kind = "create" THEN "commit" ELSE "select",
                   session |-> AsyncSessionLocal(InSessions),
                   conn |-> FALSE, path |-> ""]]
    /\ UNCHANGED <<checkedout, dbvars>>

\* await db.execute(select(...)): the row is found, is not there, or the
\* statement fails.
Execute(c, found) ==
    /\ cli[c].pc = "select"
    /\ found \in (IF cli[c].kind = "list" THEN {"rows"} ELSE {"row", "none"})
    /\ IF ~CanRun(c)
       THEN /\ cli' = [cli EXCEPT ![c] = Leave(c, FALSE, "error")]
            /\ UNCHANGED checkedout
       ELSE /\ cli' = [cli EXCEPT ![c] =
                          IF found = "none" THEN Leave(c, TRUE, "not_found")
                          ELSE IF cli[c].kind \in {"list", "get"}
                          THEN Leave(c, TRUE, "success")
                          ELSE [@ EXCEPT !.pc = "commit", !.conn = TRUE]]
            /\ checkedout' = Checkedout(checkedout, cli[c].conn, TRUE)
    /\ UNCHANGED dbvars

\* await db.commit(): the flush and the COMMIT, after which the connection is
\* back in the pool; a flush that fails is caught by create_user only.
Commit(c, ok) ==
    /\ cli[c].pc = "commit"
    /\ LET good == ok /\ CanRun(c)
           held == ~ok /\ CanRun(c)
       IN
       /\ cli' = [cli EXCEPT ![c] =
                     IF good
                     THEN IF cli[c].kind = "delete" THEN Leave(c, FALSE, "success")
                          ELSE [@ EXCEPT !.pc = "refresh", !.conn = FALSE]
                     ELSE IF cli[c].kind = "create"
                          THEN [@ EXCEPT !.pc = "rollback", !.conn = held]
                          ELSE Leave(c, held, "error")]
       /\ checkedout' = Checkedout(checkedout, cli[c].conn, held)
    /\ UNCHANGED dbvars

\* await db.refresh(...); return: the connection stays with the session
\* until it is closed.
Refresh(c, ok) ==
    /\ cli[c].pc = "refresh"
    /\ LET held == CanRun(c) IN
       /\ cli' = [cli EXCEPT ![c] =
                     IF ok /\ held THEN Leave(c, TRUE, "success")
                     ELSE IF cli[c].kind = "create"
                          THEN [@ EXCEPT !.pc = "rollback", !.conn = held]
                          ELSE Leave(c, held, "error")]
       /\ checkedout' = Checkedout(checkedout, cli[c].conn, held)
    /\ UNCHANGED dbvars

\* await db.rollback(); raise HTTPException(status_code=400, ...)
Rollback(c) ==
    /\ cli[c].pc = "rollback"
    /\ cli' = [cli EXCEPT ![c] = Leave(c, FALSE, "conflict")]
    /\ checkedout' = Checkedout(checkedout, cli[c].conn, FALSE)
    /\ UNCHANGED dbvars

\* (mutant) The session is left open when the handler raises.
CloseOnSuccessOnly(c) ==
    /\ cli[c].pc = "close"
    /\ cli[c].path = "success"
    /\ cli' = [cli EXCEPT ![c] = NoSession]
    /\ checkedout' = Checkedout(checkedout, cli[c].conn, FALSE)
    /\ UNCHANGED dbvars

\* The end of get_db's async with: the session is closed, its connection, if
\* it holds one, goes back to the pool.
Close(c) ==
    /\ cli[c].pc = "close"
    /\ cli' = [cli EXCEPT ![c] = NoSession]
    /\ checkedout' = Checkedout(checkedout, cli[c].conn, FALSE)
    /\ UNCHANGED dbvars

\* Another request's session takes a connection, or gives it back.
OtherCheckout ==
    /\ PoolHasRoom(checkedout)
    /\ checkedout' = checkedout + 1
    /\ UNCHANGED <<cli, dbvars>>

OtherCheckin ==
    /\ checkedout > Holding
    /\ checkedout' = checkedout - 1
    /\ UNCHANGED <<cli, dbvars>>

Handle(c) ==
    \/ \E found \in {"rows", "row", "none"} : Execute(c, found)
    \/ \E ok \in BOOLEAN : Commit(c, ok)
    \/ \E ok \in BOOLEAN : Refresh(c, ok)
    \/ Rollback(c)
    \/ Close(c)

PoolNext ==
    \/ \E c \in Reqs : (\E kind \in Kinds : GetDb(c, kind)) \/ Handle(c)
    \/ OtherCheckout
    \/ OtherCheckin

\* The event loop runs every handler that can go on, and a statement ends:
\* with its result, with an error or with the pool's timeout.
PoolSpec == Init /\ [][PoolNext]_vars /\ \A c \in Reqs : WF_vars(Handle(c))

OneSessionEach ==
    /\ \A c \in Reqs : (cli[c].pc = "idle") = (cli[c].session = 0)
    /\ \A c \in Reqs : cli[c].conn => cli[c].session # 0
    /\ \A c, d \in Reqs :
          (c # d /\ cli[c].session # 0) => cli[c].session # cli[d].session

PoolBound ==
    /\ Holding <= checkedout
    /\ checkedout <= pool_size + max_overflow

\* C10: a request has one session from get_db to the end of its handler, a
\* session belongs to one request, the connections checked out never exceed
\* pool_size + max_overflow, and on every exit path the session is released
\* in the end.
SessionPerRequest ==
    /\ [](OneSessionEach /\ PoolBound)
    /\ \A c \in Reqs : (cli[c].session # 0) ~> (cli[c].session = 0)

\* The pool is exhausted; one request has failed for it and is about to
\* release its session, the other holds one of the connections.
SessionPerRequestWitness ==
    /\ checkedout = pool_size + max_overflow
    /\ \E c, d \in Reqs :
          /\ cli[c].pc = "close" /\ cli[c].path = "error" /\ ~cli[c].conn
          /\ cli[d].conn /\ cli[d].session # cli[c].session
====
